---------------------------- MODULE Spec2Model ----------------------------
(***************************************************************************)
(* A model of subtitools: conversion of .sub / .ttml subtitle files to     *)
(* .srt (src/subtitools/convert) and the shifting of the timestamps of an  *)
(* .srt file (src/shift.py, src/subtitools/shift.py).                      *)
(*                                                                         *)
(* Text is modelled at the level of characters: a string is a sequence of  *)
(* one-character strings.  Python floats are IEEE-754 doubles; the values  *)
(* the program computes with them are modelled exactly (see Float below).  *)
(* os.linesep is "\n" (a POSIX system).                                    *)
(***************************************************************************)
EXTENDS Integers, Sequences, FiniteSets, TLC

VARIABLES
    cmd,          \* the invocation: "convert" or "shift" ("call": a direct call)
    cls,          \* convert: the converter class; shift: the module ("top" / "pkg")
    quiet,        \* SrtConverter._quiet
    fps,          \* convert's **kwargs: <<fps>>, or <<>> when fps is not given
    offset,       \* shift: <<hours, minutes, seconds, milliseconds>>
    has_cn,       \* whether charset_normalizer can be imported
    in_path,      \* the input path
    out_arg,      \* the out_path / output argument (None when omitted)
    out_path,     \* convert's / shift's local out_path once resolved
    fs,           \* the file system: path -> Absent, Dir or File(text)
    fs0,          \* the file system as it was when the invocation started
    pc,           \* position in the running invocation
    file_content, \* convert: the raw units returned by _parse
    subtitles,    \* convert: the Subtitle objects / the value of `subtitles`
    srt,          \* the text about to be written
    prompts,      \* the paths _prompt_overwrite has asked about, in order
    reply,        \* what the user typed at the last prompt
    writes,       \* log of the writes done: <<path, existed before, text before>>
    error,        \* the exception that ended the invocation, or None
    arg,          \* direct calls: the arguments
    ret           \* direct calls: the value returned (or the exception)

vars == <<cmd, cls, quiet, fps, offset, has_cn, in_path, out_arg, out_path, fs, fs0, pc,
          file_content, subtitles, srt, prompts, reply, writes, error, arg, ret>>

None == "None"
\* what is at a path: nothing, a directory, or a regular file with its text
Absent == [kind |-> "absent", text |-> <<>>]
Dir == [kind |-> "dir", text |-> <<>>]
File(t) == [kind |-> "file", text |-> t]

(***************************************************************************)
(* Characters and strings                                                  *)
(***************************************************************************)
LF == "\n"
CR == "\r"
linesep == <<LF>>

Digits == <<"0", "1", "2", "3", "4", "5", "6", "7", "8", "9">>

IsDigit(c) == \E i \in 1..10 : Digits[i] = c

DigitVal(c) == (CHOOSE i \in 1..10 : Digits[i] = c) - 1

RECURSIVE Flatten(_)
\* the concatenation of a sequence of strings
Flatten(ss) == IF ss = <<>> THEN <<>> ELSE Head(ss) \o Flatten(Tail(ss))

RECURSIVE Join(_, _)
\* sep.join(ss)
Join(sep, ss) ==
    IF ss = <<>> THEN <<>>
    ELSE IF Len(ss) = 1 THEN ss[1]
    ELSE ss[1] \o sep \o Join(sep, Tail(ss))

\* re.split / str.split on one-character separators: every separator ends a
\* field, empty fields are kept.  The k-th field lies between the (k-1)-th and
\* the k-th separator.
Split(s, seps) ==
    LET pos == {i \in 1..Len(s) : s[i] \in seps}
        n == Cardinality(pos)
        nth(k) == IF k = 0 THEN 0
                  ELSE IF k = n + 1 THEN Len(s) + 1
                  ELSE CHOOSE p \in pos : Cardinality({x \in pos : x < p}) = k - 1
    IN  [k \in 1..(n + 1) |-> SubSeq(s, nth(k - 1) + 1, nth(k) - 1)]

RECURSIVE DigitsVal(_)
\* the number a non-empty string of digits denotes
DigitsVal(s) ==
    IF s = <<>> THEN 0 ELSE 10 * DigitsVal(SubSeq(s, 1, Len(s) - 1)) + DigitVal(s[Len(s)])

AllDigits(s) == \A i \in 1..Len(s) : IsDigit(s[i])

RECURSIVE NatStr(_)
\* str(n) for n >= 0
NatStr(n) == IF n < 10 THEN <<Digits[n + 1]>> ELSE Append(NatStr(n \div 10), Digits[(n % 10) + 1])

RECURSIVE PadLeft(_, _)
PadLeft(s, w) == IF Len(s) >= w THEN s ELSE PadLeft(<<"0">> \o s, w)

\* "{:0wd}".format(n): zero-padded to width w, the sign counted in the width,
\* never cut
FormatInt(n, w) == IF n < 0 THEN <<"-">> \o PadLeft(NatStr(-n), w - 1) ELSE PadLeft(NatStr(n), w)


(***************************************************************************)
(* Python floats.  Every float the program computes is a non-negative      *)
(* I + r/den (I, r, den integers, 0 <= r < den) rounded one or more times  *)
(* to a double.  Such a double is I + F / 2^n with                         *)
(* F = floor(r * 2^n / den) + up, up \in {0, 1}: the record                *)
(* [int, num, den, n, up] is the double itself, not an approximation of    *)
(* it, and the operators below round to nearest, ties to even, as the      *)
(* hardware does, with numbers small enough for 32-bit integers.           *)
(***************************************************************************)
RECURSIVE Pow2(_)
Pow2(k) == IF k = 0 THEN 1 ELSE 2 * Pow2(k - 1)

\* x^2 mod d
SquareMod(x, d) == (x * x) % d

RECURSIVE PowMod2(_, _)
\* 2^k mod d
PowMod2(k, d) ==
    IF k = 0 THEN 1 % d
    ELSE IF k % 2 = 1 THEN (2 * PowMod2(k - 1, d)) % d
    ELSE SquareMod(PowMod2(k \div 2, d), d)

RECURSIVE Log2Floor(_)
\* floor(log2 k), k >= 1
Log2Floor(k) == IF k < 2 THEN 0 ELSE 1 + Log2Floor(k \div 2)

RECURSIVE LeadPos(_, _)
\* the p >= 1 with 2^-p <= r/d < 2^(1-p), 0 < r < d
LeadPos(r, d) == IF 2 * r >= d THEN 1 ELSE 1 + LeadPos(2 * r, d)

\* the number of fractional bits a double of value I + r/d keeps (53
\* significant bits in all)
FracBits(I, r, d) == IF I >= 1 THEN 52 - Log2Floor(I) ELSE LeadPos(r, d) + 52

\* (r * 2^n) mod d: what is left of r/d after its first n fractional bits
Rem(r, d, n) == (r * PowMod2(n, d)) % d

\* the n-th fractional bit of r/d
FracBit(r, d, n) == IF n < 1 THEN 0 ELSE (2 * Rem(r, d, n - 1)) \div d

RECURSIVE LowBits(_, _, _)
\* the next k fractional bits of the expansion whose remainder is R, as a number
LowBits(R, d, k) ==
    IF k = 0 THEN 0
    ELSE ((2 * R) \div d) * Pow2(k - 1) + LowBits((2 * R) % d, d, k - 1)

\* Round F = floor(r 2^n / d) + up to n2 < n fractional bits: the new `up`
RoundTo(r, d, n, up, n2) ==
    LET k == n - n2
        low == LowBits(Rem(r, d, n2), d, k) + up
        half == Pow2(k - 1)
    IN  IF low = 2 * half THEN 1
        ELSE IF low > half THEN 1
        ELSE IF low < half THEN 0
        ELSE FracBit(r, d, n2)

\* The double nearest to I + r/d: the result of the float division
\* (I*d + r) / d, and of I + r/d when that is one operation
FromRatio(I, r, d) ==
    IF r = 0 THEN [int |-> I, num |-> 0, den |-> d, n |-> 0, up |-> 0]
    ELSE LET n == FracBits(I, r, d)
             R == Rem(r, d, n)
         IN  [int |-> I, num |-> r, den |-> d, n |-> n,
              up |-> IF 2 * R > d THEN 1 ELSE IF 2 * R < d THEN 0 ELSE FracBit(r, d, n)]

\* x + k for a double x and an integer-valued double k >= 0
AddInt(x, k) ==
    IF x.num = 0 \/ k = 0 THEN [x EXCEPT !.int = x.int + k]
    ELSE LET n2 == FracBits(x.int + k, x.num, x.den)
         IN  IF n2 >= x.n THEN [x EXCEPT !.int = x.int + k]
             ELSE [x EXCEPT !.int = x.int + k, !.n = n2,
                            !.up = RoundTo(x.num, x.den, x.n, x.up, n2)]

\* x < y for two doubles over the same denominator (rounding is monotone)
FloatLess(x, y) == x.int * x.den + x.num < y.int * y.den + y.num

\* int(1000 * (x mod 1)): x mod 1 is exact, the product is rounded, int() cuts
\* the fraction off.  With f = F/2^n = r/d + e/(d 2^n) the exact product is
\* 1000 r/d + 1000 e/(d 2^n).  When 1000 r/d is an integer M and e < 0 the
\* product lies just below M, and rounds up to M only when it is within half
\* the spacing of the doubles below M.
MsTrunc(x) ==
    IF x.num = 0 THEN 0
    ELSE LET r == x.num
             d == x.den
             M == (1000 * r) \div d
             e == d * x.up - Rem(r, d, x.n)
             j == IF Pow2(Log2Floor(M)) = M THEN Log2Floor(M) - 1 ELSE Log2Floor(M)
             k == j - 53 + x.n
         IN  IF (1000 * r) % d > 0 THEN M
             ELSE IF e >= 0 THEN M
             ELSE IF k >= 0 /\ 1000 * (-e) <= d * Pow2(k) THEN M
             ELSE IF k < 0 /\ 1000 * (-e) <= d \div Pow2(-k) THEN M
             ELSE M - 1

(***************************************************************************)
(* class Subtitle                                                          *)
(***************************************************************************)
\* float(s) followed by int(): an optional sign, digits, an optional "." and
\* digits; at least one digit.  val is the integer int() gives (the fraction
\* is cut off).  The other spellings float() accepts (blanks, exponents,
\* "inf", "nan", "_") use characters no modelled input has.
\* whether s starts with a sign
IsSigned(s) == s # <<>> /\ Head(s) \in {"-", "+"}

\* the parts of an unsigned number before and after its "."
ParseParts(parts, neg) ==
    IF /\ Len(parts) \in {1, 2}
       /\ \A i \in 1..Len(parts) : AllDigits(parts[i])
       /\ \E i \in 1..Len(parts) : parts[i] # <<>>
    THEN [ok |-> TRUE, val |-> IF neg THEN -DigitsVal(parts[1]) ELSE DigitsVal(parts[1])]
    ELSE [ok |-> FALSE, val |-> 0]

ParseFloat(s) ==
    ParseParts(Split(IF IsSigned(s) THEN Tail(s) ELSE s, {"."}), IsSigned(s) /\ Head(s) = "-")

\* hr, mn, sc, ms = [float(s) for s in re.split(seps, ts)]
\* hr, mn, sc, ms = [...]: the unpacking fails unless there are four values,
\* and float() must have accepted each of them
Unpack(nums) ==
    IF Len(nums) = 4 /\ \A i \in 1..4 : nums[i].ok
    THEN [ok |-> TRUE, hr |-> nums[1].val, mn |-> nums[2].val,
          sc |-> nums[3].val, ms |-> nums[4].val]
    ELSE [ok |-> FALSE, hr |-> 0, mn |-> 0, sc |-> 0, ms |-> 0]

\* [float(s) for s in fields]
Floats(fields) == [i \in 1..Len(fields) |-> ParseFloat(fields[i])]

TryFields(ts, seps) == Unpack(Floats(Split(ts, seps)))

\* try: first / except: second
OrElse(first, second) == IF first.ok THEN first ELSE second

verify_string(ts) == OrElse(TryFields(ts, {":", ","}), TryFields(ts, {":", "."}))

\* format_timestamp with the milliseconds padded to two digits
format_timestamp_02d(hr, mn, sc, ms) ==
    FormatInt(hr, 2) \o <<":">> \o FormatInt(mn, 2) \o <<":">> \o FormatInt(sc, 2)
        \o <<",">> \o FormatInt(ms, 2)

format_timestamp(hr, mn, sc, ms) ==
    FormatInt(hr, 2) \o <<":">> \o FormatInt(mn, 2) \o <<":">> \o FormatInt(sc, 2)
        \o <<",">> \o FormatInt(ms, 3)

\* Subtitle(start, stop, text): the object, or the RuntimeError of _verify_string
\* __init__ after the two calls of _verify_string
SubtitleOf(a, b, text) ==
    IF ~a.ok \/ ~b.ok THEN [ok |-> FALSE, error |-> "RuntimeError"]
    ELSE [ok |-> TRUE,
          start |-> format_timestamp(a.hr, a.mn, a.sc, a.ms),
          stop |-> format_timestamp(b.hr, b.mn, b.sc, b.ms),
          text |-> text]

Subtitle(start, stop, text) == SubtitleOf(verify_string(start), verify_string(stop), text)

\* Subtitle.__eq__
SubtitleEq(a, b) == a.start = b.start

\* Subtitle.__repr__
SubtitleRepr(sub) == sub.start \o <<" ", "-", "-", ">", " ">> \o sub.stop \o <<LF>> \o sub.text

\* the float  sc + (3600*hr + 60*mn + ms/1000)  for components >= 0
timestamp_to_seconds(ts) ==
    LET t == verify_string(ts)
    IN  AddInt(AddInt(FromRatio(t.ms \div 1000, t.ms % 1000, 1000), 3600 * t.hr + 60 * t.mn),
               t.sc)

seconds_to_timestamp(s) ==
    format_timestamp(s.int \div 3600, (s.int % 3600) \div 60, s.int % 60, MsTrunc(s))

(***************************************************************************)
(* TtmlToSrtConverter._verify_subtitles                                    *)
(***************************************************************************)
RECURSIVE FloatMax(_)
\* max(xs) of a non-empty list of floats: the first of the largest
FloatMax(xs) ==
    IF Len(xs) = 1 THEN xs[1]
    ELSE LET m == FloatMax(SubSeq(xs, 1, Len(xs) - 1))
         IN  IF FloatLess(m, xs[Len(xs)]) THEN xs[Len(xs)] ELSE m

\* GroupLoop with the inner `while` written as an `if`: a group never grows
\* beyond two
GroupLoopIf(subs, idx, group) ==
    IF idx < Len(subs) - 1 /\ SubtitleEq(subs[idx + 1], subs[idx + 2])
    THEN [idx |-> idx + 1, group |-> <<subs[idx + 1], subs[idx + 2]>>]
    ELSE [idx |-> idx, group |-> group]

RECURSIVE GroupLoop(_, _, _)
\* the inner while loop, from index idx (0-based, as in the source) with the
\* group collected so far: the index and the group it ends with
GroupLoop(subs, idx, group) ==
    IF idx < Len(subs) - 1 /\ SubtitleEq(subs[idx + 1], subs[idx + 2])
    THEN GroupLoop(subs, idx + 1,
                   Append(IF group = <<>> THEN <<subs[idx + 1]>> ELSE group, subs[idx + 2]))
    ELSE [idx |-> idx, group |-> group]

\* the Subtitle made of a group
MergeGroup(group) ==
    Subtitle(group[1].start,
             seconds_to_timestamp(
                 FloatMax([i \in 1..Len(group) |-> timestamp_to_seconds(group[i].stop)])),
             Join(<<LF>>, [i \in 1..Len(group) |-> group[i].text]))

RECURSIVE VerifyLoop(_, _, _)
\* the outer while loop
VerifyLoop(subs, idx, out) ==
    IF idx < Len(subs)
    THEN LET g == GroupLoop(subs, idx, <<>>)
             sub == IF g.group # <<>> THEN MergeGroup(g.group) ELSE subs[g.idx + 1]
         IN  VerifyLoop(subs, g.idx + 1, Append(out, sub))
    ELSE out

ttml_verify_subtitles(subs) == VerifyLoop(subs, 0, <<>>)

\* SrtConverter._verify_subtitles
base_verify_subtitles(subs) == subs

(***************************************************************************)
(* Reading text files                                                      *)
(***************************************************************************)
\* what open(p).read() returns for the file's text: in text mode "\r\n" and a
\* lone "\r" are both read as "\n" (every "\r" becomes "\n", and a "\n" right
\* after a "\r" is dropped)
UniversalNewlines(t) ==
    LET m == [i \in 1..Len(t) |->
                 IF t[i] = CR THEN LF
                 ELSE IF t[i] = LF /\ i > 1 /\ t[i - 1] = CR THEN ""
                 ELSE t[i]]
    IN  SelectSeq(m, LAMBDA c : c # "")

\* re.sub(r"\r", "", text)
RemoveCR(t) == SelectSeq(t, LAMBDA c : c # CR)

\* utils.read_lines(p, encoding=None, strip_empty): both callers leave the
\* encoding out.  With charset_normalizer the text is the decoded file as it
\* is; without it the file is read in text mode.
read_lines(text, strip_empty, cn) ==
    LET raw == IF cn THEN text ELSE UniversalNewlines(text)
        t == IF CR \in {raw[i] : i \in 1..Len(raw)} THEN RemoveCR(raw) ELSE raw
        lines == Split(t, {LF})
    IN  IF strip_empty THEN SelectSeq(lines, LAMBDA l : l # <<>>) ELSE lines

\* fileobj.readlines() of a file opened in text mode: the lines, each with its
\* "\n", the last one without when the text does not end in a line break
readlines(text) ==
    LET f == Split(UniversalNewlines(text), {LF})
        n == Len(f)
    IN  [i \in 1..(IF f[n] = <<>> THEN n - 1 ELSE n) |->
            IF i < n THEN f[i] \o <<LF>> ELSE f[i]]

(***************************************************************************)
(* SubToSrtConverter                                                       *)
(***************************************************************************)
RECURSIVE DigitPrefix(_)
\* the length of the longest prefix of digits
DigitPrefix(s) == IF s # <<>> /\ IsDigit(Head(s)) THEN 1 + DigitPrefix(Tail(s)) ELSE 0

\* match \{(\d+)\} at the start of s
MatchFrame(s) ==
    LET k == IF s # <<>> /\ Head(s) = "{" THEN DigitPrefix(Tail(s)) ELSE 0
    IN  IF k >= 1 /\ Len(s) >= k + 2 /\ s[k + 2] = "}"
        THEN [ok |-> TRUE, frame |-> DigitsVal(SubSeq(s, 2, k + 1)),
              rest |-> SubSeq(s, k + 3, Len(s))]
        ELSE [ok |-> FALSE, frame |-> 0, rest |-> <<>>]

RECURSIVE ReplaceBar(_)
\* re.sub(r"\|", os.linesep, text)
ReplaceBar(t) ==
    IF t = <<>> THEN <<>>
    ELSE (IF Head(t) = "|" THEN linesep ELSE <<Head(t)>>) \o ReplaceBar(Tail(t))

\* the float f / fps turned into a timestamp
format_time_frames(f, fps_) == seconds_to_timestamp(FromRatio(f \div fps_, f % fps_, fps_))

\* SubToSrtConverter._parse_subtitle(line, **kwargs): fps is a required
\* argument, so a call without it is a TypeError
sub_parse_subtitle(line, kwargs) ==
    LET a == MatchFrame(line)
        b == MatchFrame(a.rest)
    IN  IF kwargs = <<>> THEN [ok |-> FALSE, error |-> "TypeError"]
        ELSE IF ~a.ok \/ ~b.ok THEN [ok |-> FALSE, error |-> "ValueError"]
        ELSE Subtitle(format_time_frames(a.frame, kwargs[1]),
                      format_time_frames(b.frame, kwargs[1]), ReplaceBar(b.rest))

(***************************************************************************)
(* SrtConverter                                                            *)
(***************************************************************************)
\* _index_subtitles numbering from 0
index_subtitles_from0(subs) ==
    [i \in 1..Len(subs) |-> NatStr(i - 1) \o <<LF>> \o SubtitleRepr(subs[i]) \o <<LF>>]

\* f"{idx+1}\n{sub}\n" for idx, sub in enumerate(subtitles)
index_subtitles(subs) ==
    [i \in 1..Len(subs) |-> NatStr(i) \o <<LF>> \o SubtitleRepr(subs[i]) \o <<LF>>]

\* the _verify_subtitles of the converter class
verify_subtitles(c, subs) ==
    IF c = "ttml" THEN ttml_verify_subtitles(subs) ELSE base_verify_subtitles(subs)

Lower(c) == IF c = "Y" THEN "y" ELSE IF c = "N" THEN "n" ELSE c

RECURSIVE LStrip(_)
LStrip(s) == IF s # <<>> /\ Head(s) = " " THEN LStrip(Tail(s)) ELSE s

RECURSIVE RStrip(_)
RStrip(s) == IF s # <<>> /\ s[Len(s)] = " " THEN RStrip(SubSeq(s, 1, Len(s) - 1)) ELSE s

\* _prompt_overwrite's reading of the reply
prompt_overwrite(r) ==
    LET t == [i \in 1..Len(RStrip(LStrip(r))) |-> Lower(RStrip(LStrip(r))[i])]
    IN  t = <<>> \/ Head(t) = "y"

(***************************************************************************)
(* shift.py: datetime arithmetic.  A datetime is the day (counted from the *)
(* 1st of January 2022), the second of the day and the microsecond; a      *)
(* timedelta is normalised to days, seconds and microseconds, as in Python.*)
(***************************************************************************)
Arrow == <<" ", "-", "-", ">", " ">>

\* the form \d\d:\d\d:\d\d,\d\d\d of ts_regex and of both halves of rng_regex
IsTsForm(s) ==
    /\ Len(s) = 12
    /\ s[3] = ":" /\ s[6] = ":" /\ s[9] = ","
    /\ \A i \in {1, 2, 4, 5, 7, 8, 10, 11, 12} : IsDigit(s[i])

\* rng_regex.match(line): the pattern at the start of the line
rng_match(line) ==
    /\ Len(line) >= 29
    /\ IsTsForm(SubSeq(line, 1, 12))
    /\ SubSeq(line, 13, 17) = Arrow
    /\ IsTsForm(SubSeq(line, 18, 29))

\* timedelta(hours=h, minutes=m, seconds=s, milliseconds=ms)
\* normalised to days, 0 <= seconds < 86400 and 0 <= microseconds < 1000000
timedelta(h, m, sc, ms) ==
    LET secs == 3600 * (h % 24) + 60 * (m % 1440) + sc + (ms \div 1000)
    IN  [days |-> (h \div 24) + (m \div 1440) + (secs \div 86400),
         seconds |-> secs % 86400,
         microseconds |-> (ms % 1000) * 1000]

\* the year of the date _make_time gives every timestamp
BaseYear == 2022

\* the days from 0001-01-01 to the first of January of year y
DaysBefore(y) == (y - 1) * 365 + ((y - 1) \div 4) - ((y - 1) \div 100) + ((y - 1) \div 400)

\* the days a datetime may lie before and after the first of January of
\* BaseYear: datetime goes from 0001-01-01 to 9999-12-31
MinDay == DaysBefore(1) - DaysBefore(BaseYear)
MaxDay == DaysBefore(10000) - 1 - DaysBefore(BaseYear)

\* _make_time without the conversion of milliseconds to microseconds
make_time_as_us(s) ==
    LET hour == DigitsVal(SubSeq(s, 1, 2))
        minute == DigitsVal(SubSeq(s, 4, 5))
        second == DigitsVal(SubSeq(s, 7, 8))
    IN  IF hour > 23 \/ minute > 59 \/ second > 59 THEN [ok |-> FALSE, error |-> "ValueError"]
        ELSE [ok |-> TRUE, day |-> 0, sec |-> 3600 * hour + 60 * minute + second,
              us |-> DigitsVal(SubSeq(s, 10, 12))]

\* _make_time(s): datetime(2022, 1, 1, hour, minute, second, microsecond),
\* which raises ValueError for an hour over 23 or a minute or second over 59
make_time(s) ==
    LET hour == DigitsVal(SubSeq(s, 1, 2))
        minute == DigitsVal(SubSeq(s, 4, 5))
        second == DigitsVal(SubSeq(s, 7, 8))
        microsecond == DigitsVal(SubSeq(s, 10, 12)) * 1000
    IN  IF hour > 23 \/ minute > 59 \/ second > 59 THEN [ok |-> FALSE, error |-> "ValueError"]
        ELSE [ok |-> TRUE, day |-> 0, sec |-> 3600 * hour + 60 * minute + second,
              us |-> microsecond]

\* datetime + timedelta, an OverflowError when the date leaves the years
\* 1..9999
datetime_add(d, td) ==
    LET us == d.us + td.microseconds
        secs == d.sec + td.seconds + (us \div 1000000)
        day == d.day + td.days + (secs \div 86400)
    IN  IF day < MinDay \/ day > MaxDay THEN [ok |-> FALSE, error |-> "OverflowError"]
        ELSE [ok |-> TRUE, day |-> day, sec |-> secs % 86400, us |-> us % 1000000]

\* d.strftime("%H:%M:%S,%f")[:-3]
strftime(d) ==
    LET full == FormatInt(d.sec \div 3600, 2) \o <<":">> \o FormatInt((d.sec % 3600) \div 60, 2)
                    \o <<":">> \o FormatInt(d.sec % 60, 2) \o <<",">> \o FormatInt(d.us, 6)
    IN  SubSeq(full, 1, Len(full) - 3)

\* strftime of a sum that did not overflow
FormatSum(d) == IF d.ok THEN [ok |-> TRUE, ts |-> strftime(d)] ELSE d

\* _shift(s, t_shift): the new timestamp, or the ValueError of _make_time, or
\* the OverflowError of the addition
shift_ts(s, td) ==
    LET t == make_time(s)
    IN  IF t.ok THEN FormatSum(datetime_add(t, td)) ELSE t

\* the body of do_shift's loop: the line as it is appended to `out`; `tail` is
\* what the f-string puts after the new range
shift_line(line, td, tail) ==
    IF rng_match(line)
    THEN LET start == shift_ts(SubSeq(line, 1, 12), td)
             stop == shift_ts(SubSeq(line, 18, 29), td)
         IN  IF start.ok /\ stop.ok
             THEN [ok |-> TRUE, line |-> start.ts \o Arrow \o stop.ts \o tail]
             ELSE [ok |-> FALSE, error |-> IF start.ok THEN stop.error ELSE start.error]
    ELSE [ok |-> TRUE, line |-> line]

\* the exception of the first line that raised one
FirstError(new) == new[CHOOSE i \in 1..Len(new) : ~new[i].ok /\ \A j \in 1..(i - 1) : new[j].ok].error

\* src/shift.py do_shift on the text of the file
top_do_shift(text, off) ==
    LET td == timedelta(off[1], off[2], off[3], off[4])
        lines == readlines(text)
        new == [i \in 1..Len(lines) |-> shift_line(lines[i], td, <<LF>>)]
    IN  IF \A i \in 1..Len(new) : new[i].ok
        THEN [ok |-> TRUE, out |-> Flatten([i \in 1..Len(new) |-> new[i].line])]
        ELSE [ok |-> FALSE, error |-> FirstError(new)]

\* src/subtitools/shift.py do_shift on the text of the file
pkg_do_shift(text, off, cn) ==
    LET td == timedelta(off[1], off[2], off[3], off[4])
        lines == read_lines(text, FALSE, cn)
        new == [i \in 1..Len(lines) |-> shift_line(lines[i], td, <<>>)]
    IN  IF \A i \in 1..Len(new) : new[i].ok
        THEN [ok |-> TRUE, out |-> Join(linesep, [i \in 1..Len(new) |-> new[i].line])]
        ELSE [ok |-> FALSE, error |-> FirstError(new)]

(***************************************************************************)
(* Direct calls: a function of the program applied to an argument          *)
(***************************************************************************)
\* Timestamp strings given to Subtitle(): the hours, minutes, seconds and
\* milliseconds fields and the millisecond separator
HourFields == {<<"0", "0">>, <<"0", "9">>, <<"2", "3">>, <<"9", "9">>}
MinuteFields == {<<"0", "0">>, <<"5", "9">>}
SecondFields == {<<"0", "0">>, <<"0", "7">>, <<"5", "9">>}
MilliFields == {<<"0", "0", "0">>, <<"0", "0", "1">>, <<"0", "4", "0">>, <<"9", "9", "9">>}

WellFormedInputs ==
    {h \o <<":">> \o m \o <<":">> \o sc \o <<sep>> \o ms :
        h \in HourFields, m \in MinuteFields, sc \in SecondFields,
        ms \in MilliFields, sep \in {",", "."}}

OtherInputs ==
    { <<"1", ":", "2", ":", "3", ",", "4">>,
      <<"1", "0", "0", ":", "0", "0", ":", "0", "0", ",", "0", "0", "0">>,
      <<"-", "1", ":", "0", "0", ":", "0", "0", ",", "0", "0", "0">>,
      <<"0", "0", ":", "0", "0", ":", "0", "0", ",", "1", "0", "0", "0">>,
      <<"0", "0", ":", "0", "0", ":", "0", "1", ".", "5", ",", "0", "0", "0">>,
      <<"0", "0", ":", "0", "0", ":", "0", "0">>,
      <<"0", "0", ":", "0", "0", ",", "0", "0", ".", "0", "0", "0">>,
      <<"0", "0", ":", "0", "0", ":", "0", "0", ",", "0", "0", "0", ",", "0">>,
      <<"0", "0", ":", "0", "x", ":", "0", "0", ",", "0", "0", "0">>,
      <<"0", "0", ":", ":", "0", "0", ",", "0", "0", "0">>,
      <<>> }

StartInputs == WellFormedInputs \cup OtherInputs

StopInputs ==
    { <<"0", "0", ":", "0", "0", ":", "0", "2", ",", "5", "0", "0">>,
      <<"0", "1", ":", "0", "2", ":", "0", "3", ".", "0", "0", "4">>,
      <<"0", "0", ":", "6", "1", ":", "0", "0", ",", "0", "0">>,
      <<"1", "2", "3", ":", "0", "0", ":", "0", "0", ".", "0", "0", "0">>,
      <<"0", "0", ":", "0", "0", ":", "x">> }

NoProgram ==
    /\ cls = None /\ quiet = None /\ fps = None /\ offset = None /\ has_cn = None
    /\ in_path = None /\ out_arg = None /\ out_path = None /\ fs = None /\ fs0 = None
    /\ file_content = None /\ subtitles = None /\ srt = None /\ prompts = None
    /\ reply = None /\ writes = None /\ error = None

ProgramVars == <<cls, quiet, fps, offset, has_cn, in_path, out_arg, out_path, fs, fs0,
                 file_content, subtitles, srt, prompts, reply, writes, error>>

\* Subtitle(start, stop, text)
InitSubtitle ==
    /\ cmd = "call" /\ pc = "call" /\ ret = None /\ NoProgram
    /\ arg \in [start : StartInputs, stop : StopInputs, text : {<<"a">>}]

ConstructSubtitle ==
    /\ cmd = "call" /\ pc = "call"
    /\ ret' = Subtitle(arg.start, arg.stop, arg.text)
    /\ pc' = "returned"
    /\ UNCHANGED <<cmd, arg, ProgramVars>>

SpecSubtitle == InitSubtitle /\ [][ConstructSubtitle]_vars

\* the form HH:MM:SS,mmm
IsCanonical(s) ==
    /\ Len(s) = 12
    /\ s[3] = ":" /\ s[6] = ":" /\ s[9] = ","
    /\ \A i \in {1, 2, 4, 5, 7, 8, 10, 11, 12} : IsDigit(s[i])

\* the form HH:MM:SS.mmm
IsDotted(s) ==
    /\ Len(s) = 12
    /\ s[3] = ":" /\ s[6] = ":" /\ s[9] = "."
    /\ \A i \in {1, 2, 4, 5, 7, 8, 10, 11, 12} : IsDigit(s[i])

WithComma(s) == [s EXCEPT ![9] = ","]

\* C9: a Subtitle constructed from timestamps of the form HH:MM:SS,mmm or
\* HH:MM:SS.mmm has exactly those timestamps as start and stop, the "." turned
\* into ","; and construction from such timestamps succeeds.
C9_CanonicalRoundTrip ==
    (cmd = "call" /\ pc = "returned") =>
        LET fine(s) == IsCanonical(s) \/ IsDotted(s)
        IN  /\ (fine(arg.start) /\ fine(arg.stop)) => ret.ok
            /\ (ret.ok /\ fine(arg.start)) => ret.start = WithComma(arg.start)
            /\ (ret.ok /\ fine(arg.stop)) => ret.stop = WithComma(arg.stop)

C9_Witness ==
    /\ pc = "returned" /\ ret.ok
    /\ IsCanonical(arg.start) /\ ret.start = arg.start
    /\ arg.start[10] = "0" /\ arg.start[12] = "1"
    /\ IsDotted(arg.stop) /\ ret.stop # arg.stop /\ ret.stop = WithComma(arg.stop)

\* C10: every Subtitle that is constructed has start and stop of the form
\* HH:MM:SS,mmm, and construction fails for a string that does not decompose
\* into four numeric components.
C10_ConstructedIsCanonical ==
    (cmd = "call" /\ pc = "returned") =>
        /\ ret.ok => (IsCanonical(ret.start) /\ IsCanonical(ret.stop))
        /\ (~verify_string(arg.start).ok \/ ~verify_string(arg.stop).ok) => ~ret.ok

(***************************************************************************)
(* Direct calls of TtmlToSrtConverter._verify_subtitles                    *)
(***************************************************************************)
MaxSubs == 4

MergeStarts ==
    { <<"0", "0", ":", "0", "0", ":", "0", "0", ",", "0", "0", "0">>,
      <<"0", "0", ":", "0", "0", ":", "0", "1", ",", "0", "0", "0">> }

\* stop and text of the subtitles given to the merge
MergeBodies ==
    { [stop |-> <<"0", "0", ":", "0", "0", ":", "0", "1", ",", "5", "0", "0">>, text |-> <<"a">>],
      [stop |-> <<"0", "0", ":", "0", "0", ":", "0", "2", ",", "0", "0", "1">>, text |-> <<"b">>],
      [stop |-> <<"0", "0", ":", "0", "0", ":", "0", "3", ",", "0", "0", "0">>, text |-> <<"a">>] }

MergeSubs == {Subtitle(st, b.stop, b.text) : st \in MergeStarts, b \in MergeBodies}

InitMerge ==
    /\ cmd = "call" /\ pc = "call" /\ ret = None /\ NoProgram
    /\ arg \in UNION {[1..n -> MergeSubs] : n \in 0..MaxSubs}

CallVerifySubtitles ==
    /\ cmd = "call" /\ pc = "call"
    /\ ret' = ttml_verify_subtitles(arg)
    /\ pc' = "returned"
    /\ UNCHANGED <<cmd, arg, ProgramVars>>

SpecMerge == InitMerge /\ [][CallVerifySubtitles]_vars

RECURSIVE RunsOf(_)
\* the maximal runs of consecutive records with equal start
RunsOf(subs) ==
    IF subs = <<>> THEN <<>>
    ELSE LET rest == RunsOf(Tail(subs))
         IN  IF rest # <<>> /\ rest[1][1].start = Head(subs).start
             THEN <<(<<Head(subs)>> \o rest[1])>> \o Tail(rest)
             ELSE <<(<<Head(subs)>>)>> \o rest

\* the time of a timestamp HH:MM:SS,mmm in milliseconds
Millis(ts) ==
    3600000 * DigitsVal(SubSeq(ts, 1, 2)) + 60000 * DigitsVal(SubSeq(ts, 4, 5))
        + 1000 * DigitsVal(SubSeq(ts, 7, 8)) + DigitsVal(SubSeq(ts, 10, 12))

LatestStop(run) ==
    LET i == CHOOSE k \in 1..Len(run) : \A m \in 1..Len(run) : Millis(run[m].stop) <= Millis(run[k].stop)
    IN  run[i].stop

MergedRun(run) ==
    IF Len(run) = 1 THEN run[1]
    ELSE [ok |-> TRUE, start |-> run[1].start, stop |-> LatestStop(run),
          text |-> Join(<<LF>>, [i \in 1..Len(run) |-> run[i].text])]

\* C3: the merge replaces every maximal run of records with equal start by one
\* record: the shared start, the latest stop of the run, the texts joined by
\* newlines in order; a record alone in its run is passed through.
C3_MergeOfRuns ==
    (cmd = "call" /\ pc = "returned") =>
        LET runs == RunsOf(arg)
        IN  ret = [i \in 1..Len(runs) |-> MergedRun(runs[i])]

\* C4: only run-adjacent records are merged: one output record per maximal
\* run, in order, and no two adjacent output records with equal start.
C4_OnlyAdjacentMerged ==
    (cmd = "call" /\ pc = "returned") =>
        LET runs == RunsOf(arg)
        IN  /\ Len(ret) = Len(runs)
            /\ \A i \in 1..Len(ret) : ret[i].start = runs[i][1].start
            /\ \A i \in 1..(Len(ret) - 1) : ret[i].start # ret[i + 1].start

\* a run of two was merged, and the output still holds two records with equal
\* start that are not adjacent
C4_Witness ==
    /\ pc = "returned" /\ Len(arg) = 4 /\ Len(ret) = 3
    /\ arg[1].start = arg[2].start
    /\ ret[1].start = ret[3].start /\ ret[1].start # ret[2].start

(***************************************************************************)
(* The program: one invocation of SrtConverter.convert or of shift         *)
(***************************************************************************)
MaxUnits == 3
MaxLines == 2

Paths == {"in", "out"}

OldText == <<"o", "l", "d", LF>>

\* the lines of the .sub files given to convert; the last one is the empty
\* line of a file with "\r\n" line ends
SubLines ==
    { <<"{", "0", "}", "{", "5", "0", "}", "H", "|", "W">>,
      <<"{", "2", "9", "}", "{", "7", "}", "C">>,
      <<"{", "0", "}", "{", "5", "0", "}">>,
      <<"{", "0", "}", "{", "5", "0">>,
      <<CR>> }

SubFiles ==
    {File(Flatten([i \in 1..Len(ls) |-> ls[i] \o <<LF>>])) :
        ls \in UNION {[1..n -> SubLines] : n \in 0..MaxUnits}}

\* a .ttml text whose one <p> node has begin, end and text
TtmlCue ==
    <<"<", "p", " ", "b", "e", "g", "i", "n", "=", "\"", "0", ":", "1", "\"", " ", "e", "n", "d", "=", "\"", "0", ":", "2", "\"", ">", "x", "<", "/", "p", ">", LF>>

TtmlFiles == { File(<<"<", "p", "/", ">", LF>>), File(TtmlCue) }

InFiles(c) == {Absent, Dir} \cup (IF c = "sub" THEN SubFiles ELSE TtmlFiles)

\* the out_path argument and what is at the path "out"
OutChoices ==
    { [arg |-> None, out |-> Absent], [arg |-> "in", out |-> Absent],
      [arg |-> "out", out |-> Absent], [arg |-> "out", out |-> Dir],
      [arg |-> "out", out |-> File(OldText)] }

Replies == { <<>>, <<"y">>, <<" ", "Y", "e", "s">>, <<"n">>, <<"N", "o", " ">>, <<"x">> }

FpsValues == {<<>>, <<25>>}

InitConvert ==
    /\ cmd = "convert"
    /\ cls \in {"sub", "ttml"}
    /\ quiet \in BOOLEAN
    /\ fps \in FpsValues
    /\ has_cn \in BOOLEAN
    /\ offset = None
    /\ in_path = "in"
    /\ \E c \in OutChoices, f \in InFiles(cls) :
          /\ out_arg = c.arg
          /\ fs = [p \in Paths |-> IF p = "in" THEN f ELSE c.out]
    /\ fs0 = fs
    /\ out_path = None /\ pc = "start" /\ file_content = <<>> /\ subtitles = <<>>
    /\ srt = <<>> /\ prompts = <<>> /\ reply = None /\ writes = <<>> /\ error = None
    /\ arg = None /\ ret = None

\* convert, line 114: _parse.  TtmlToSrtConverter._parse takes no `encoding`,
\* so the call is a TypeError; the base _parse verifies the file and reads it.
Parse ==
    /\ cmd = "convert" /\ pc = "start"
    /\ IF cls = "ttml"
       THEN error' = "TypeError" /\ pc' = "failed" /\ file_content' = file_content
       ELSE IF fs[in_path] = Absent
       THEN error' = "FileNotFoundError" /\ pc' = "failed" /\ file_content' = file_content
       ELSE IF fs[in_path] = Dir
       THEN error' = "RuntimeError" /\ pc' = "failed" /\ file_content' = file_content
       ELSE /\ file_content' = read_lines(fs[in_path].text, TRUE, has_cn)
            /\ pc' = "resolve" /\ error' = error
    /\ UNCHANGED <<cmd, cls, quiet, fps, offset, has_cn, in_path, out_arg, out_path, fs, fs0,
                   subtitles, srt, prompts, reply, writes, arg, ret>>

\* where convert goes on after lines 116-124
AfterPrompt == IF file_content = <<>> THEN "render" ELSE "extract"

\* convert, lines 116-121: the target, and the prompt when it is asked
ResolveOut ==
    /\ cmd = "convert" /\ pc = "resolve"
    /\ IF out_arg = None
       THEN out_path' = in_path /\ prompts' = prompts /\ pc' = AfterPrompt
       ELSE /\ out_path' = out_arg
            /\ IF ~quiet /\ fs[out_arg] # Absent
               THEN prompts' = Append(prompts, out_arg) /\ pc' = "prompt"
               ELSE prompts' = prompts /\ pc' = AfterPrompt
    /\ UNCHANGED <<cmd, cls, quiet, fps, offset, has_cn, in_path, out_arg, fs, fs0,
                   file_content, subtitles, srt, reply, writes, error, arg, ret>>

\* convert, lines 121-124: the user's reply to _prompt_overwrite
Reply ==
    /\ cmd = "convert" /\ pc = "prompt"
    /\ \E r \in Replies :
          /\ reply' = r
          /\ pc' = IF prompt_overwrite(r) THEN AfterPrompt ELSE "aborted"
    /\ UNCHANGED <<cmd, cls, quiet, fps, offset, has_cn, in_path, out_arg, out_path, fs, fs0,
                   file_content, subtitles, srt, prompts, writes, error, arg, ret>>

\* Extract writing the blocks made so far to out_path after every unit
ExtractWritingEach ==
    /\ cmd = "convert" /\ pc = "extract"
    /\ LET i == Len(subtitles) + 1
           sub == sub_parse_subtitle(file_content[i], fps)
       IN  IF sub.ok
           THEN /\ subtitles' = Append(subtitles, sub)
                /\ fs' = [fs EXCEPT ![out_path] = File(Join(<<LF>>, index_subtitles(subtitles')))]
                /\ pc' = IF i = Len(file_content) THEN "render" ELSE "extract"
                /\ error' = error
           ELSE error' = sub.error /\ pc' = "failed" /\ subtitles' = subtitles /\ fs' = fs
    /\ UNCHANGED <<cmd, cls, quiet, fps, offset, has_cn, in_path, out_arg, out_path, fs0,
                   file_content, srt, prompts, reply, writes, arg, ret>>

\* convert, line 126: the list comprehension, one unit at a time.  Only
\* SubToSrtConverter gets here.
Extract ==
    /\ cmd = "convert" /\ pc = "extract"
    /\ LET i == Len(subtitles) + 1
           sub == sub_parse_subtitle(file_content[i], fps)
       IN  IF sub.ok
           THEN /\ subtitles' = Append(subtitles, sub)
                /\ pc' = IF i = Len(file_content) THEN "render" ELSE "extract"
                /\ error' = error
           ELSE error' = sub.error /\ pc' = "failed" /\ subtitles' = subtitles
    /\ UNCHANGED <<cmd, cls, quiet, fps, offset, has_cn, in_path, out_arg, out_path, fs, fs0,
                   file_content, srt, prompts, reply, writes, arg, ret>>

\* convert, lines 127-129: _verify_subtitles, _index_subtitles and the join
Render ==
    /\ cmd = "convert" /\ pc = "render"
    /\ subtitles' = verify_subtitles(cls, subtitles)
    /\ srt' = Join(<<LF>>, index_subtitles(subtitles'))
    /\ pc' = "write"
    /\ UNCHANGED <<cmd, cls, quiet, fps, offset, has_cn, in_path, out_arg, out_path, fs, fs0,
                   file_content, prompts, reply, writes, error, arg, ret>>

\* convert, lines 131-132: open(out_path, 'w') and the one write
WriteSrt ==
    /\ cmd = "convert" /\ pc = "write"
    /\ IF fs[out_path] = Dir
       THEN error' = "IsADirectoryError" /\ pc' = "failed" /\ fs' = fs /\ writes' = writes
       ELSE /\ fs' = [fs EXCEPT ![out_path] = File(srt)]
            /\ writes' = Append(writes, [path |-> out_path, before |-> fs[out_path]])
            /\ pc' = "done" /\ error' = error
    /\ UNCHANGED <<cmd, cls, quiet, fps, offset, has_cn, in_path, out_arg, out_path, fs0,
                   file_content, subtitles, srt, prompts, reply, arg, ret>>

NextConvert == Parse \/ ResolveOut \/ Reply \/ Extract \/ Render \/ WriteSrt

SpecConvert == InitConvert /\ [][NextConvert]_vars

\* the pieces .srt files are made of: a line and its line end (the last piece
\* is a range line that ends the file without a line end)
SrtPieces ==
    { <<"1", LF>>,
      <<CR, LF>>,
      <<"0", "0", ":", "0", "0", ":", "0", "1", ",", "0", "0", "0", " ", "-", "-", ">", " ", "0", "0", ":", "0", "0", ":", "0", "2", ",", "5", "0", "0", LF>>,
      <<"0", "0", ":", "0", "0", ":", "0", "1", ",", "0", "0", "0", " ", "-", "-", ">", " ", "0", "0", ":", "0", "0", ":", "0", "2", ",", "5", "0", "0", " ", "X", CR, LF>>,
      <<"0", "0", ":", "0", "0", ":", "0", "1", ",", "0", "0", "0", " ", "-", "-", ">", " ", "2", "5", ":", "0", "0", ":", "0", "0", ",", "0", "0", "0", LF>>,
      <<"a", CR, "b", LF>>,
      <<"0", "0", ":", "0", "0", ":", "0", "1", ",", "0", "0", "0", " ", "-", "-", ">", " ", "0", "0", ":", "0", "0", ":", "0", "2", ",", "5", "0", "0">> }

SrtFiles ==
    {File(Flatten(ps)) : ps \in UNION {[1..n -> SrtPieces] : n \in 0..MaxLines}}

\* hours, minutes, seconds, milliseconds
Offsets == { <<0, 0, 0, 0>>, <<0, 0, 1, 500>>, <<0, 0, -2, 0>> }

InitShift ==
    /\ cmd = "shift"
    /\ cls \in {"top", "pkg"}
    /\ offset \in Offsets
    /\ has_cn \in BOOLEAN
    /\ quiet = FALSE /\ fps = <<>>
    /\ in_path = "in"
    /\ out_arg \in {None, "out"}
    /\ \E f \in {Absent, Dir} \cup SrtFiles :
          fs = [p \in Paths |-> IF p = "in" THEN f ELSE Absent]
    /\ fs0 = fs
    /\ out_path = None /\ pc = "start" /\ file_content = <<>> /\ subtitles = <<>>
    /\ srt = <<>> /\ prompts = <<>> /\ reply = None /\ writes = <<>> /\ error = None
    /\ arg = None /\ ret = None

\* shift: the target and do_shift (src/shift.py when cls is "top",
\* src/subtitools/shift.py when it is "pkg")
DoShift ==
    /\ cmd = "shift" /\ pc = "start"
    /\ out_path' = IF out_arg = None THEN in_path ELSE out_arg
    /\ IF fs[in_path] = Absent
       THEN error' = "FileNotFoundError" /\ pc' = "failed" /\ srt' = srt
       ELSE IF fs[in_path] = Dir
       THEN error' = "IsADirectoryError" /\ pc' = "failed" /\ srt' = srt
       ELSE LET r == IF cls = "top" THEN top_do_shift(fs[in_path].text, offset)
                     ELSE pkg_do_shift(fs[in_path].text, offset, has_cn)
            IN  IF r.ok THEN srt' = r.out /\ pc' = "write" /\ error' = error
                ELSE error' = r.error /\ pc' = "failed" /\ srt' = srt
    /\ UNCHANGED <<cmd, cls, quiet, fps, offset, has_cn, in_path, out_arg, fs, fs0,
                   file_content, subtitles, prompts, reply, writes, arg, ret>>

\* shift: open(output, 'w') and the one write
WriteShift ==
    /\ cmd = "shift" /\ pc = "write"
    /\ fs' = [fs EXCEPT ![out_path] = File(srt)]
    /\ writes' = Append(writes, [path |-> out_path, before |-> fs[out_path]])
    /\ pc' = "done"
    /\ UNCHANGED <<cmd, cls, quiet, fps, offset, has_cn, in_path, out_arg, out_path, fs0,
                   file_content, subtitles, srt, prompts, reply, error, arg, ret>>

NextShift == DoShift \/ WriteShift

SpecShift == InitShift /\ [][NextShift]_vars

Init == InitConvert \/ InitShift

Next == NextConvert \/ NextShift

Spec == Init /\ [][Next]_vars

\* whether the reply given at the prompt for out_path was a yes
AskedAndYes == (\E i \in 1..Len(prompts) : prompts[i] = out_path) /\ prompt_overwrite(reply)

\* C1: when not quiet, convert writes to a target that already exists only
\* after the prompt for that target was answered yes (out_path given or left
\* out); a no ends convert with nothing written; when quiet nothing is asked.
C1_OverwriteOnlyAfterYes ==
    (cmd = "convert") =>
        /\ (pc = "done" /\ ~quiet /\ writes[1].before # Absent) => AskedAndYes
        /\ (pc = "aborted") => (fs = fs0 /\ writes = <<>>)
        /\ quiet => prompts = <<>>

\* C2: a failed invocation of convert or shift leaves the file system as it
\* was: nothing is written before every unit is extracted, post-processed and
\* indexed (every line rewritten), and then there is exactly one write.
C2_NoPartialOutput ==
    /\ (pc # "done") => (fs = fs0 /\ writes = <<>>)
    /\ (error # None) => pc = "failed"
    /\ (pc = "done") => (Len(writes) = 1 /\ error = None /\ fs[out_path] = File(srt))

\* convert stopped at a malformed .sub line after extracting one or more units,
\* and the output file was not created
C2_Witness ==
    /\ cmd = "convert" /\ pc = "failed" /\ error = "ValueError"
    /\ Len(subtitles) >= 1
    /\ out_path = "out" /\ fs["out"] = Absent

\* the lines of the block of index k
BlockLines(k, sub) == <<NatStr(k), sub.start \o Arrow \o sub.stop>> \o Split(sub.text, {LF})

\* C5: the output holds one block per record of the final sequence, in its
\* order (the order of the input, never sorted), block k made of the line k,
\* the line START --> STOP and the text, with one empty line between blocks.
C5_IndexedBlocksInOrder ==
    (cmd = "convert" /\ pc = "done") =>
        LET n == Len(subtitles)
            out == fs[out_path].text
        IN  /\ n = Len(file_content)
            /\ \A k \in 1..n : subtitles[k] = sub_parse_subtitle(file_content[k], fps)
            /\ IF n = 0 THEN out = <<>>
               ELSE Split(out, {LF}) =
                        Flatten([k \in 1..n |->
                                    BlockLines(k, subtitles[k])
                                        \o (IF k < n THEN <<(<<>>)>> ELSE <<>>)])
                            \o <<(<<>>)>>

\* three records were written, the first starting after the second
C5_Witness ==
    /\ cmd = "convert" /\ pc = "done" /\ Len(subtitles) = 3
    /\ Millis(subtitles[1].start) > Millis(subtitles[2].start)
    /\ subtitles[3].text = <<"H", LF, "W">>

\* C6: a shift by zero writes the text it read, unchanged.
C6_ZeroShiftIsIdentity ==
    (cmd = "shift" /\ pc = "done" /\ offset = <<0, 0, 0, 0>>) => fs[out_path] = fs0[in_path]

\* the lines of a text, a line ending at "\n", "\r\n" or "\r"
TextLines(t) ==
    LET f == Split(UniversalNewlines(t), {LF})
    IN  IF f[Len(f)] = <<>> THEN SubSeq(f, 1, Len(f) - 1) ELSE f

OffsetMillis(off) == ((off[1] * 60 + off[2]) * 60 + off[3]) * 1000 + off[4]

DayMillis == 24 * 3600 * 1000

\* C7: the output has the lines of the input, in order; a line that does not
\* match the range pattern is unchanged, and on a matching line both
\* timestamps are the input's plus the offset.
C7_OnlyRangeLinesChange ==
    (cmd = "shift" /\ pc = "done") =>
        LET a == TextLines(fs0[in_path].text)
            b == TextLines(fs[out_path].text)
            off == OffsetMillis(offset)
        IN  /\ Len(b) = Len(a)
            /\ \A i \in 1..Len(a) :
                  IF rng_match(a[i])
                  THEN /\ rng_match(b[i])
                       /\ Millis(SubSeq(b[i], 1, 12)) = (Millis(SubSeq(a[i], 1, 12)) + off) % DayMillis
                       /\ Millis(SubSeq(b[i], 18, 29)) = (Millis(SubSeq(a[i], 18, 29)) + off) % DayMillis
                  ELSE b[i] = a[i]

(***************************************************************************)
(* Direct calls of _shift: a timestamp shifted by an offset, and the       *)
(* result shifted by the opposite offset                                   *)
(***************************************************************************)
ShiftTimestamps ==
    {h \o <<":">> \o m \o <<":">> \o sc \o <<",">> \o ms :
        h \in {<<"0", "0">>, <<"1", "2">>, <<"2", "3">>, <<"2", "4">>},
        m \in {<<"0", "0">>, <<"5", "9">>},
        sc \in {<<"0", "0">>, <<"5", "9">>},
        ms \in {<<"0", "0", "0">>, <<"0", "0", "1">>, <<"9", "9", "9">>}}

ShiftOffsets ==
    { <<0, 0, 0, 0>>, <<0, 0, 0, 1>>, <<0, 0, 0, -1>>, <<0, 0, 1, 0>>, <<0, -1, 0, 0>>,
      <<1, 0, 0, 0>>, <<-23, -59, -59, -999>>, <<11, 59, 59, 999>>, <<0, 0, -61, 1500>> }

InitShiftTs ==
    /\ cmd = "call" /\ pc = "call" /\ ret = <<>> /\ NoProgram
    /\ arg \in [ts : ShiftTimestamps, off : ShiftOffsets]

\* _shift(t, d)
ShiftThere ==
    /\ cmd = "call" /\ pc = "call"
    /\ LET r == shift_ts(arg.ts, timedelta(arg.off[1], arg.off[2], arg.off[3], arg.off[4]))
       IN  ret' = <<r>> /\ pc' = IF r.ok THEN "shifted" ELSE "failed"
    /\ UNCHANGED <<cmd, arg, ProgramVars>>

\* _shift(_shift(t, d), -d)
ShiftBack ==
    /\ cmd = "call" /\ pc = "shifted"
    /\ ret' = Append(ret, shift_ts(ret[1].ts,
                                   timedelta(-arg.off[1], -arg.off[2], -arg.off[3], -arg.off[4])))
    /\ pc' = "returned"
    /\ UNCHANGED <<cmd, arg, ProgramVars>>

SpecShiftTs == InitShiftTs /\ [][ShiftThere \/ ShiftBack]_vars

\* t + d lies within the day
StaysInDay(ts, off) ==
    /\ Millis(ts) + OffsetMillis(off) >= 0
    /\ Millis(ts) + OffsetMillis(off) < DayMillis

\* C8: when t + d stays within 00:00:00,000 .. 23:59:59,999, shifting t by d
\* and the result by -d gives the string t back.
C8_ShiftThereAndBack ==
    (cmd = "call" /\ pc = "returned" /\ StaysInDay(arg.ts, arg.off)) =>
        (ret[2].ok /\ ret[2].ts = arg.ts)

\* an offset of -61 s and +1500 ms, with a borrow from the seconds
C8_Witness ==
    /\ pc = "returned" /\ StaysInDay(arg.ts, arg.off)
    /\ arg.off = <<0, 0, -61, 1500>>
    /\ arg.ts[10] = "9"
    /\ ret[1].ts # arg.ts /\ ret[2].ts = arg.ts

\* the timestamp of a whole number of milliseconds
MillisTimestamp(ms) ==
    format_timestamp(ms \div 3600000, (ms \div 60000) % 60, (ms \div 1000) % 60, ms % 1000)

\* the record the line '{a}{b}text' stands for at the frame rate r: the frames
\* as floor(1000 * frame / r) milliseconds, every '|' a line break
TruncatedRecord(a, b, r) ==
    [ok |-> TRUE,
     start |-> MillisTimestamp((1000 * a.frame) \div r),
     stop |-> MillisTimestamp((1000 * b.frame) \div r),
     text |-> ReplaceBar(b.rest)]

\* C11: the .sub extractor makes one record per input line, in input order,
\* with start and stop floor(1000 * frame / fps) milliseconds and the text with
\* '|' replaced by a line break; a line that does not begin with two frame
\* numbers in braces is a parse error.
C11_SubRecordsTruncated ==
    (cmd = "convert" /\ cls = "sub") =>
        /\ Len(subtitles) <= Len(file_content)
        /\ \A k \in 1..Len(subtitles) :
              subtitles[k] = TruncatedRecord(MatchFrame(file_content[k]),
                                             MatchFrame(MatchFrame(file_content[k]).rest),
                                             fps[1])
        /\ (pc \in {"render", "write", "done"}) => Len(subtitles) = Len(file_content)
        /\ (pc = "failed" /\ error = "ValueError") =>
              \/ ~MatchFrame(file_content[Len(subtitles) + 1]).ok
              \/ ~MatchFrame(MatchFrame(file_content[Len(subtitles) + 1]).rest).ok

\* in_path is a regular file and every raw unit in it matches the extractor's
\* pattern; the frame rate a .sub needs is given, the target is no directory
ValidInput ==
    /\ fs0[in_path].kind = "file"
    /\ fs0[IF out_arg = None THEN in_path ELSE out_arg] # Dir
    /\ IF cls = "sub"
       THEN /\ fps # <<>>
            /\ \A l \in {x \in SubLines : x # <<CR>>} :
                  (\E i \in 1..Len(read_lines(fs0[in_path].text, TRUE, has_cn)) :
                      read_lines(fs0[in_path].text, TRUE, has_cn)[i] = l)
                  => MatchFrame(l).ok /\ MatchFrame(MatchFrame(l).rest).ok
       ELSE fs0[in_path] = File(TtmlCue)

\* C12: for .sub and for .ttml, convert on an existing regular file whose
\* units all match the extractor's pattern raises no error, and when it ends
\* it has written the output exactly once, after everything else.
C12_ValidInputConverts ==
    (cmd = "convert" /\ ValidInput) =>
        /\ pc # "failed" /\ error = None
        /\ (pc = "done") => (Len(writes) = 1 /\ fs[out_path] = File(srt))
        /\ (pc # "done") => writes = <<>>

(***************************************************************************)
(* Direct calls of _shift with offsets that leave the day                  *)
(***************************************************************************)
WrapOffsets ==
    { <<0, 0, 0, 1>>, <<0, 0, 0, -1>>, <<24, 0, 0, 0>>, <<-25, 0, 0, 0>>, <<48, 0, -1, 0>>,
      <<0, -1441, 0, 0>>, <<0, 0, 86400, 999>>, <<-17715721, 0, 0, 0>>, <<70000000, 0, 0, 0>> }

InitShiftWrap ==
    /\ cmd = "call" /\ pc = "call" /\ ret = <<>> /\ NoProgram
    /\ arg \in [ts : ShiftTimestamps, off : WrapOffsets]

SpecShiftWrap == InitShiftWrap /\ [][ShiftThere]_vars

\* the offset modulo 24 hours, in milliseconds
OffsetMillisInDay(off) ==
    ((off[1] % 24) * 3600000 + (off[2] % 1440) * 60000 + (off[3] % 86400) * 1000
        + (off[4] % DayMillis)) % DayMillis

\* HH:MM:SS,mmm with the hour in 00..23, minute and second in 00..59
IsClockTime(s) ==
    /\ IsTsForm(s)
    /\ DigitsVal(SubSeq(s, 1, 2)) <= 23
    /\ DigitsVal(SubSeq(s, 4, 5)) <= 59
    /\ DigitsVal(SubSeq(s, 7, 8)) <= 59

\* C13: _shift of a timestamp of the day never fails, whatever the offset: the
\* result is (t + offset) modulo 24 hours, in the form HH:MM:SS,mmm with hour
\* 00..23, minute and second 00..59, millisecond 000..999.
C13_ShiftWrapsInDay ==
    (cmd = "call" /\ pc \in {"shifted", "failed"} /\ IsClockTime(arg.ts)) =>
        /\ ret[1].ok
        /\ IsClockTime(ret[1].ts)
        /\ Millis(ret[1].ts) = (Millis(arg.ts) + OffsetMillisInDay(arg.off)) % DayMillis

=============================================================================
